---- MODULE Spec2Model ----
(***************************************************************************)
(* bolt-pm: the manifest command line tool of src/src/main.cpp.            *)
(*                                                                         *)
(* Every invocation of the tool is a process that runs main(): it          *)
(* dispatches on argv[1] and runs one of initialize_manifest,              *)
(* install_package, build_project or print_help.  The two files the tool   *)
(* touches (bolt.toml and main.bolt) are the shared state; a process step  *)
(* is one file system call of the handler (exists, parse_file, the         *)
(* truncating open of std::ofstream, the write on close, system()).        *)
(***************************************************************************)
EXTENDS Naturals, Sequences, FiniteSets, TLC

VARIABLES
    manifest,    \* the file MANIFEST_FILE: [exists, data]
    entryfile,   \* the file main.bolt: [exists, data]
    pc,          \* pc[p]: where invocation p stands in main()
    argv,        \* argv[p]: the arguments after argv[0]
    tbl,         \* tbl[p]: install_package's local toml::table
    cmd,         \* cmd[p]: build_project's compiler_cmd, token by token
    ret,         \* ret[p]: {what std::system returned}, {} before the call
    exit,        \* exit[p]: {the exit status of the process}, {} while it runs
    latest,      \* history: the process started last, 0 if none
    pre,         \* history: the manifest when that process started
    preEntry,    \* history: main.bolt when that process started
    stale,       \* history: packages others wrote between p's load and p's write
    overlap,     \* history: another invocation ran during invocation p
    lastWriter,  \* history: the process that wrote the manifest last, 0 if none
    fresh        \* history: the manifest was created by `new`

vars == <<manifest, entryfile, pc, argv, tbl, cmd, ret, exit, latest, pre,
          preEntry, stale, overlap, lastWriter, fresh>>

----------------------------------------------------------------------------
(* Bounds of the model *)

(* Two invocations are enough for every interleaving of two commands. *)
Procs == {1, 2}

Pkgs == {"fmt", "zlib"}

(* std::system's possible results: success, the compiler's failure, and
   the shell's "command not found". *)
CompilerRets == {0, 1, 127}

(* What dereferencing the null `deps` of line 86 can do: the process is
   killed (SIGSEGV), or the insertion goes nowhere and execution goes on. *)
UBOutcomes == {"crash", "lost"}

(* The exit status of a process killed by SIGSEGV, as the shell reports it. *)
CrashStatus == 139

----------------------------------------------------------------------------
(* Program constants *)

MANIFEST_FILE == "bolt.toml"
COMPILER_NAME == "bolt-compiler"

----------------------------------------------------------------------------
(* TOML documents.  A node is a string value, an integer value or a table  *)
(* of values; a document is the root table.                                *)

NoKeys == [k \in {} |-> ""]

Tbl(f) == [kind |-> "tbl", v |-> "", t |-> f]

(* toml::table keeps its keys in a std::map: every traversal (the
   serializer's, build_project's loop) visits them in this order. *)
KeyOrder == <<"dependencies", "entrypoint", "fmt", "name", "package",
              "version", "zlib">>

SortedKeys(S) == SelectSeq(KeyOrder, LAMBDA k : k \in S)

(* A file's text, line by line. *)
Hdr(k) == [t |-> "hdr", k |-> k, kind |-> "", v |-> ""]
KV(k, kind, v) == [t |-> "kv", k |-> k, kind |-> kind, v |-> v]
Junk == [t |-> "junk", k |-> "", kind |-> "", v |-> ""]

Absent == [exists |-> FALSE, data |-> <<>>]
File(d) == [exists |-> TRUE, data |-> d]

(* toml::parse: key/value lines go to the table of the last header (the
   root before any header); a table or a key defined twice and a line that
   is no TOML are parse errors. *)
RECURSIVE ParseLines(_, _, _)
ParseLines(lines, doc, sec) ==
    IF lines = <<>> THEN [ok |-> TRUE, doc |-> doc]
    ELSE LET l == Head(lines)
             rest == Tail(lines)
         IN  CASE l.t = "hdr" ->
                    IF l.k \in DOMAIN doc
                    THEN [ok |-> FALSE, doc |-> NoKeys]
                    ELSE ParseLines(rest, (l.k :> Tbl(NoKeys)) @@ doc, l.k)
               [] l.t = "kv" /\ sec = "" ->
                    IF l.k \in DOMAIN doc
                    THEN [ok |-> FALSE, doc |-> NoKeys]
                    ELSE ParseLines(rest,
                             (l.k :> [kind |-> l.kind, v |-> l.v, t |-> NoKeys]) @@ doc,
                             sec)
               [] l.t = "kv" /\ sec # "" ->
                    IF l.k \in DOMAIN doc[sec].t
                    THEN [ok |-> FALSE, doc |-> NoKeys]
                    ELSE ParseLines(rest,
                             [doc EXCEPT ![sec] =
                                 Tbl((l.k :> [kind |-> l.kind, v |-> l.v]) @@ doc[sec].t)],
                             sec)
               [] OTHER -> [ok |-> FALSE, doc |-> NoKeys]

(* toml::parse_file: a file that cannot be opened is a parse_error too. *)
ParseFile(f) ==
    IF ~f.exists THEN [ok |-> FALSE, doc |-> NoKeys]
    ELSE ParseLines(f.data, NoKeys, "")

(* operator<<(ostream, toml::table): the root's values first, then one
   [header] per sub-table followed by its values, keys in map order. *)
ValueLines(f) ==
    LET ks == SortedKeys({k \in DOMAIN f : f[k].kind # "tbl"})
    IN  [i \in 1..Len(ks) |-> KV(ks[i], f[ks[i]].kind, f[ks[i]].v)]

RECURSIVE TableLines(_, _)
TableLines(doc, ks) ==
    IF ks = <<>> THEN <<>>
    ELSE LET k == Head(ks)
             sub == doc[k].t
             sks == SortedKeys(DOMAIN sub)
         IN  <<Hdr(k)>>
             \o [i \in 1..Len(sks) |-> KV(sks[i], sub[sks[i]].kind, sub[sks[i]].v)]
             \o TableLines(doc, Tail(ks))

Serialize(doc) ==
    ValueLines(doc)
    \o TableLines(doc, SortedKeys({k \in DOMAIN doc : doc[k].kind = "tbl"}))

----------------------------------------------------------------------------
(* Node access, as toml::node_view does it. *)

(* tbl[a][b].value_or(dflt): the string at a.b, dflt when a is no table,
   b is missing or the value is no string. *)
ValueOr(doc, a, b, dflt) ==
    IF /\ a \in DOMAIN doc
       /\ doc[a].kind = "tbl"
       /\ b \in DOMAIN doc[a].t
       /\ doc[a].t[b].kind = "str"
    THEN doc[a].t[b].v
    ELSE dflt

(* tbl[a].as_table() # nullptr *)
IsTable(doc, a) == a \in DOMAIN doc /\ doc[a].kind = "tbl"

(* DepFlags with the loop stopping one key early. *)
DepFlags_StopsEarly(doc) ==
    IF IsTable(doc, "dependencies")
    THEN LET ks == SortedKeys(DOMAIN doc["dependencies"].t)
         IN  [i \in 1..(Len(ks) - 1) |-> "-l" \o ks[i]]
    ELSE <<>>

(* build_project's compiler_cmd: COMPILER_NAME, the entrypoint, "-o" and
   the output name, then one "-l<key>" per key of the dependencies table
   in the table's order. *)
DepFlags(doc) ==
    IF IsTable(doc, "dependencies")
    THEN LET ks == SortedKeys(DOMAIN doc["dependencies"].t)
         IN  [i \in 1..Len(ks) |-> "-l" \o ks[i]]
    ELSE <<>>

CompilerCmd(doc) ==
    LET entrypoint == ValueOr(doc, "package", "entrypoint", "main.bolt")
        output_name == ValueOr(doc, "package", "name", "my-app")
    IN  <<COMPILER_NAME, entrypoint, "-o", output_name>> \o DepFlags(doc)

(* The document initialize_manifest builds in memory. *)
DefaultDoc ==
    ("package" :> Tbl(("name" :> [kind |-> "str", v |-> "new-bolt-project"])
                      @@ ("version" :> [kind |-> "str", v |-> "0.1.0"])
                      @@ ("entrypoint" :> [kind |-> "str", v |-> "main.bolt"])))
    @@ ("dependencies" :> Tbl(NoKeys))

(* The text initialize_manifest writes to main.bolt. *)
StubText == <<[t |-> "text", k |-> "", kind |-> "",
               v |-> "// Main entrypoint: main.bolt\n\nint main() {\n    \n    return 0;\n}\n"]>>

(* install_package's change of the parsed document: the dependencies
   table is created when the key is missing, then the package is set. *)
WithDependencies(doc) ==
    IF "dependencies" \in DOMAIN doc THEN doc
    ELSE ("dependencies" :> Tbl(NoKeys)) @@ doc

(* InsertOrAssign assigning a new table instead of inserting into the old. *)
InsertOrAssign_NewTable(doc, package_name) ==
    [doc EXCEPT !["dependencies"] =
        Tbl(package_name :> [kind |-> "str", v |-> "1.0.0"])]

InsertOrAssign(doc, package_name) ==
    [doc EXCEPT !["dependencies"] =
        Tbl((package_name :> [kind |-> "str", v |-> "1.0.0"]) @@ doc["dependencies"].t)]

----------------------------------------------------------------------------
(* The states the tool can be started in. *)

ArgLists ==
    { <<>>, <<"new">>, <<"install">>, <<"build">>, <<"help">>, <<"frobnicate">> }
    \cup { <<"install", k>> : k \in Pkgs }

FileArgLists == { <<"new">>, <<"build">> } \cup { <<"install", k>> : k \in Pkgs }

(* Manifests a user may have written by hand before the tool runs. *)
HandWritten ==
    <<Hdr("package"), KV("name", "str", "demo"), KV("version", "str", "2.0"),
      KV("entrypoint", "str", "app.bolt"),
      Hdr("dependencies"), KV("fmt", "str", "0.9.0")>>
NoDependencies == <<Hdr("package"), KV("name", "str", "demo")>>
OddTypes ==
    <<Hdr("package"), KV("entrypoint", "int", "42"),
      Hdr("dependencies"), KV("zlib", "int", "7")>>
ScalarDependencies == <<KV("dependencies", "int", "1")>>
NotToml == <<Hdr("package"), Junk>>

InitManifests ==
    { Absent, File(<<>>), File(HandWritten), File(NoDependencies), File(OddTypes),
      File(ScalarDependencies), File(NotToml) }

InitEntryFiles ==
    { Absent, File(<<[t |-> "text", k |-> "", kind |-> "", v |-> "int main() { return 1; }"]>>) }

Init ==
    /\ manifest \in InitManifests
    /\ entryfile \in InitEntryFiles
    /\ pc = [p \in Procs |-> "idle"]
    /\ argv = [p \in Procs |-> <<>>]
    /\ tbl = [p \in Procs |-> NoKeys]
    /\ cmd = [p \in Procs |-> <<>>]
    /\ ret = [p \in Procs |-> {}]
    /\ exit = [p \in Procs |-> {}]
    /\ latest = 0
    /\ pre = manifest
    /\ preEntry = entryfile
    /\ stale = [p \in Procs |-> {}]
    /\ overlap = [p \in Procs |-> FALSE]
    /\ lastWriter = 0
    /\ fresh = FALSE

----------------------------------------------------------------------------
(* Process bookkeeping *)

Active(p) == pc[p] \notin {"idle", "done"}

(* The process ends with the given exit status. *)
Terminate(p, status) ==
    /\ pc' = [pc EXCEPT ![p] = "done"]
    /\ exit' = [exit EXCEPT ![p] = {status}]

Goto(p, label) ==
    /\ pc' = [pc EXCEPT ![p] = label]
    /\ UNCHANGED exit

(* Process p opens the manifest for writing: whoever has loaded it and not
   yet written it back now holds a document without p's package. *)
NoteWrite(p) ==
    /\ lastWriter' = p
    /\ stale' = [q \in Procs |->
                    IF q # p /\ pc[q] = "install_open" /\ pc[p] = "install_open"
                    THEN stale[q] \cup {argv[p][2]}
                    ELSE stale[q]]

(* The shell starts the tool with some arguments; p is the first process
   slot that is free. *)
Launch(p, a) ==
    /\ ~Active(p)
    /\ \A q \in Procs : q < p => Active(q)
    /\ argv' = [argv EXCEPT ![p] = a]
    /\ pc' = [pc EXCEPT ![p] = "main"]
    /\ exit' = [exit EXCEPT ![p] = {}]
    /\ ret' = [ret EXCEPT ![p] = {}]
    /\ tbl' = [tbl EXCEPT ![p] = NoKeys]
    /\ cmd' = [cmd EXCEPT ![p] = <<>>]
    /\ latest' = p
    /\ pre' = manifest
    /\ preEntry' = entryfile
    /\ stale' = [stale EXCEPT ![p] = {}]
    /\ overlap' = [q \in Procs |->
                      IF q = p THEN \E r \in Procs \ {p} : Active(r)
                      ELSE overlap[q] \/ Active(q)]
    /\ UNCHANGED <<manifest, entryfile, lastWriter, fresh>>

(* One invocation at a time: the shell waits for the running one. *)
StartAlone(p) ==
    /\ \A q \in Procs : ~Active(q)
    /\ \E a \in ArgLists : Launch(p, a)

(* Invocations started while others run; the commands are those that look
   at the manifest. *)
StartAny(p) == \E a \in FileArgLists : Launch(p, a)

----------------------------------------------------------------------------
(* main *)

(* Main with the unknown command falling through to the final return. *)
Main_FallsThrough(p) ==
    /\ pc[p] = "main"
    /\ LET argc == Len(argv[p]) + 1
       IN  IF argc < 2 THEN Terminate(p, 1)
           ELSE CASE argv[p][1] = "new" -> Goto(p, "new")
                  [] argv[p][1] = "install" ->
                        IF argc < 3 THEN Terminate(p, 1)
                        ELSE Goto(p, "install")
                  [] argv[p][1] = "build" -> Goto(p, "build")
                  [] OTHER -> Goto(p, "ret")
    /\ UNCHANGED <<manifest, entryfile, argv, tbl, cmd, ret, latest, pre, preEntry,
                   stale, overlap, lastWriter, fresh>>

Main(p) ==
    /\ pc[p] = "main"
    /\ LET argc == Len(argv[p]) + 1
       IN  IF argc < 2 THEN Terminate(p, 1)
           ELSE CASE argv[p][1] = "new" -> Goto(p, "new")
                  [] argv[p][1] = "install" ->
                        IF argc < 3 THEN Terminate(p, 1)
                        ELSE Goto(p, "install")
                  [] argv[p][1] = "build" -> Goto(p, "build")
                  [] argv[p][1] = "help" -> Goto(p, "ret")
                  [] OTHER -> Terminate(p, 1)
    /\ UNCHANGED <<manifest, entryfile, argv, tbl, cmd, ret, latest, pre, preEntry,
                   stale, overlap, lastWriter, fresh>>

(* The handler has returned: main's final return. *)
MainReturn(p) ==
    /\ pc[p] = "ret"
    /\ Terminate(p, 0)
    /\ UNCHANGED <<manifest, entryfile, argv, tbl, cmd, ret, latest, pre, preEntry,
                   stale, overlap, lastWriter, fresh>>

----------------------------------------------------------------------------
(* initialize_manifest *)

(* NewExists without the early return. *)
NewExists_NoReturn(p) ==
    /\ pc[p] = "new"
    /\ Goto(p, "new_open")
    /\ UNCHANGED <<manifest, entryfile, argv, tbl, cmd, ret, latest, pre, preEntry,
                   stale, overlap, lastWriter, fresh>>

NewExists(p) ==
    /\ pc[p] = "new"
    /\ IF manifest.exists THEN Goto(p, "ret") ELSE Goto(p, "new_open")
    /\ UNCHANGED <<manifest, entryfile, argv, tbl, cmd, ret, latest, pre, preEntry,
                   stale, overlap, lastWriter, fresh>>

(* std::ofstream manifest(MANIFEST_FILE) creates the file empty. *)
NewOpen(p) ==
    /\ pc[p] = "new_open"
    /\ manifest' = File(<<>>)
    /\ NoteWrite(p)
    /\ Goto(p, "new_write")
    /\ UNCHANGED <<entryfile, argv, tbl, cmd, ret, latest, pre, preEntry, overlap, fresh>>

NewWrite(p) ==
    /\ pc[p] = "new_write"
    /\ manifest' = File(Serialize(DefaultDoc))
    /\ lastWriter' = p
    /\ fresh' = TRUE
    /\ Goto(p, "new_entry")
    /\ UNCHANGED <<entryfile, argv, tbl, cmd, ret, latest, pre, preEntry, stale, overlap>>

(* NewEntry without the exists test. *)
NewEntry_Always(p) ==
    /\ pc[p] = "new_entry"
    /\ entryfile' = File(StubText)
    /\ Goto(p, "ret")
    /\ UNCHANGED <<manifest, argv, tbl, cmd, ret, latest, pre, preEntry, stale, overlap,
                   lastWriter, fresh>>

NewEntry(p) ==
    /\ pc[p] = "new_entry"
    /\ entryfile' = IF ~entryfile.exists THEN File(StubText) ELSE entryfile
    /\ Goto(p, "ret")
    /\ UNCHANGED <<manifest, argv, tbl, cmd, ret, latest, pre, preEntry, stale, overlap,
                   lastWriter, fresh>>

----------------------------------------------------------------------------
(* install_package *)

InstallExists(p) ==
    /\ pc[p] = "install"
    /\ IF ~manifest.exists THEN Goto(p, "ret") ELSE Goto(p, "install_parse")
    /\ UNCHANGED <<manifest, entryfile, argv, tbl, cmd, ret, latest, pre, preEntry,
                   stale, overlap, lastWriter, fresh>>

(* Lines 77-86: parse, create the dependencies table when the key is
   missing, insert.  When the key holds something that is no table,
   as_table() is null and line 86 dereferences it. *)
InstallParse(p) ==
    /\ pc[p] = "install_parse"
    /\ LET r == ParseFile(manifest)
           doc == WithDependencies(r.doc)
       IN  IF ~r.ok
           THEN /\ Goto(p, "ret")
                /\ UNCHANGED tbl
           ELSE IF IsTable(doc, "dependencies")
           THEN /\ tbl' = [tbl EXCEPT ![p] = InsertOrAssign(doc, argv[p][2])]
                /\ Goto(p, "install_open")
           ELSE \E o \in UBOutcomes :
                   IF o = "crash"
                   THEN /\ Terminate(p, CrashStatus)
                        /\ UNCHANGED tbl
                   ELSE /\ tbl' = [tbl EXCEPT ![p] = doc]
                        /\ Goto(p, "install_open")
    /\ UNCHANGED <<manifest, entryfile, argv, cmd, ret, latest, pre, preEntry,
                   stale, overlap, lastWriter, fresh>>

(* std::ofstream manifest(MANIFEST_FILE) truncates the file. *)
InstallOpen(p) ==
    /\ pc[p] = "install_open"
    /\ manifest' = File(<<>>)
    /\ NoteWrite(p)
    /\ Goto(p, "install_write")
    /\ UNCHANGED <<entryfile, argv, tbl, cmd, ret, latest, pre, preEntry, overlap, fresh>>

InstallWrite(p) ==
    /\ pc[p] = "install_write"
    /\ manifest' = File(Serialize(tbl[p]))
    /\ lastWriter' = p
    /\ Goto(p, "ret")
    /\ UNCHANGED <<entryfile, argv, tbl, cmd, ret, latest, pre, preEntry, stale, overlap,
                   fresh>>

----------------------------------------------------------------------------
(* build_project *)

BuildExists(p) ==
    /\ pc[p] = "build"
    /\ IF ~manifest.exists THEN Goto(p, "ret") ELSE Goto(p, "build_parse")
    /\ UNCHANGED <<manifest, entryfile, argv, tbl, cmd, ret, latest, pre, preEntry,
                   stale, overlap, lastWriter, fresh>>

BuildParse(p) ==
    /\ pc[p] = "build_parse"
    /\ LET r == ParseFile(manifest)
       IN  IF ~r.ok
           THEN /\ Goto(p, "ret")
                /\ UNCHANGED cmd
           ELSE /\ cmd' = [cmd EXCEPT ![p] = CompilerCmd(r.doc)]
                /\ Goto(p, "build_system")
    /\ UNCHANGED <<manifest, entryfile, argv, tbl, ret, latest, pre, preEntry,
                   stale, overlap, lastWriter, fresh>>

(* std::system(compiler_cmd): the compiler is another program. *)
BuildSystem(p) ==
    /\ pc[p] = "build_system"
    /\ \E r \in CompilerRets : ret' = [ret EXCEPT ![p] = {r}]
    /\ Goto(p, "ret")
    /\ UNCHANGED <<manifest, entryfile, argv, tbl, cmd, latest, pre, preEntry,
                   stale, overlap, lastWriter, fresh>>

----------------------------------------------------------------------------
(* Specifications *)

Step(p) ==
    \/ Main(p) \/ MainReturn(p)
    \/ NewExists(p) \/ NewOpen(p) \/ NewWrite(p) \/ NewEntry(p)
    \/ InstallExists(p) \/ InstallParse(p) \/ InstallOpen(p) \/ InstallWrite(p)
    \/ BuildExists(p) \/ BuildParse(p) \/ BuildSystem(p)

(* Invocations one after the other. *)
Next == \E p \in Procs : StartAlone(p) \/ Step(p)

Spec == Init /\ [][Next]_vars

(* Invocations that may run at the same time. *)
NextConc == \E p \in Procs : StartAny(p) \/ Step(p)

SpecConc == Init /\ [][NextConc]_vars

----------------------------------------------------------------------------
(* What the properties below read off a state. *)

(* Invocation p, started last with arguments a, has ended: `pre` and
   `preEntry` are the files it found and, when invocations run one after
   the other, `manifest` and `entryfile` are the files it left. *)
Ran(p, a) == latest = p /\ pc[p] = "done" /\ argv[p] = a

Quiet == \A p \in Procs : ~Active(p)

(* The names in a document's dependencies table. *)
DepNames(doc) ==
    IF "dependencies" \in DOMAIN doc /\ doc["dependencies"].kind = "tbl"
    THEN DOMAIN doc["dependencies"].t
    ELSE {}

(* Every value of a document with its path: <<table, key, kind, value>>,
   the table being "" for a value of the root. *)
Entries(doc) ==
    { <<"", a, doc[a].kind, doc[a].v>> : a \in {x \in DOMAIN doc : doc[x].kind # "tbl"} }
    \cup UNION { { <<a, b, doc[a].t[b].kind, doc[a].t[b].v>> : b \in DOMAIN doc[a].t }
                 : a \in {x \in DOMAIN doc : doc[x].kind = "tbl"} }

(* The string at package.<field> when there is one. *)
HasPackageString(doc, field) ==
    \E e \in Entries(doc) : e[1] = "package" /\ e[2] = field /\ e[3] = "str"

PackageString(doc, field) ==
    (CHOOSE e \in Entries(doc) : e[1] = "package" /\ e[2] = field)[4]

----------------------------------------------------------------------------
(* C1: `install <pkg>` without a manifest exits with a non-zero status and
   creates no file: the manifest is still absent afterwards. *)
C1_InstallWithoutManifestFails ==
    \A p \in Procs : \A k \in Pkgs :
        (Ran(p, <<"install", k>>) /\ ~pre.exists)
            => (0 \notin exit[p] /\ ~manifest.exists)

(* C2: `build` exits 0 exactly when the manifest exists, parses and the
   compiler returned 0, and exits 1 in every other case. *)
C2_BuildExitStatus ==
    \A p \in Procs :
        Ran(p, <<"build">>)
            => IF pre.exists /\ ParseFile(pre).ok /\ ret[p] = {0}
               THEN exit[p] = {0}
               ELSE exit[p] = {1}

(* C3: `install <pkg>` on a manifest that is no valid TOML leaves the file
   as it was and ends with a non-zero exit status. *)
C3_InstallUnparsableFails ==
    \A p \in Procs : \A k \in Pkgs :
        (Ran(p, <<"install", k>>) /\ pre.exists /\ ~ParseFile(pre).ok)
            => (manifest = pre /\ 0 \notin exit[p])

(* C4: `new` with a manifest already there changes neither the manifest nor
   the entrypoint stub, whatever the manifest holds, and exits 0. *)
C4_NewOnExistingIsNoOp ==
    \A p \in Procs :
        (Ran(p, <<"new">>) /\ pre.exists)
            => (manifest = pre /\ entryfile = preEntry /\ exit[p] = {0})

C4_Witness ==
    \E p \in Procs :
        /\ Ran(p, <<"new">>)
        /\ pre.exists /\ pre \notin InitManifests
        /\ "zlib" \in DepNames(ParseFile(pre).doc)
        /\ ~entryfile.exists

(* C5: `install foo` on a parsable manifest leaves dependencies.foo =
   "1.0.0", and on a manifest that already has it leaves the same document
   (install is idempotent). *)
C5_InstallSetsVersion ==
    \A p \in Procs : \A k \in Pkgs :
        (Ran(p, <<"install", k>>) /\ pre.exists /\ ParseFile(pre).ok)
            => /\ ParseFile(manifest).ok
               /\ <<"dependencies", k, "str", "1.0.0">> \in Entries(ParseFile(manifest).doc)
               /\ <<"dependencies", k, "str", "1.0.0">> \in Entries(ParseFile(pre).doc)
                     => ParseFile(manifest).doc = ParseFile(pre).doc

(* C6: the command `build` constructs is the compiler, the entrypoint
   (package.entrypoint or main.bolt), -o, the output name (package.name or
   my-app), then exactly one -l<key> per key of the dependencies table and
   nothing else. *)
C6_CompilerCommand ==
    \A p \in Procs :
        (latest = p /\ argv[p] = <<"build">> /\ cmd[p] # <<>>)
            => LET doc == ParseFile(pre).doc
                   flags == SubSeq(cmd[p], 5, Len(cmd[p]))
               IN  /\ Len(cmd[p]) >= 4
                   /\ cmd[p][1] = "bolt-compiler"
                   /\ cmd[p][2] = IF HasPackageString(doc, "entrypoint")
                                  THEN PackageString(doc, "entrypoint")
                                  ELSE "main.bolt"
                   /\ cmd[p][3] = "-o"
                   /\ cmd[p][4] = IF HasPackageString(doc, "name")
                                  THEN PackageString(doc, "name")
                                  ELSE "my-app"
                   /\ {flags[i] : i \in 1..Len(flags)} = {"-l" \o k : k \in DepNames(doc)}
                   /\ Len(flags) = Cardinality(DepNames(doc))

C6_Witness ==
    \E p \in Procs :
        /\ pc[p] = "build_system"
        /\ cmd[p] = <<"bolt-compiler", "app.bolt", "-o", "demo", "-lfmt", "-lzlib">>

(* C7: help exits 0; no arguments, an unknown command and `install`
   without a package name exit 1; none of them reaches a handler that
   touches the manifest, which stays as it was. *)
C7_DispatchOnly ==
    \A p \in Procs :
        (latest = p /\ argv[p] \in {<<>>, <<"help">>, <<"frobnicate">>, <<"install">>})
            => /\ pc[p] \in {"main", "ret", "done"}
               /\ argv[p] = <<"install">> => pc[p] # "ret"
               /\ manifest = pre /\ entryfile = preEntry
               /\ pc[p] = "done"
                     => exit[p] = IF argv[p] = <<"help">> THEN {0} ELSE {1}

C7_Witness ==
    \E p \in Procs : Ran(p, <<"install">>) /\ pre.exists /\ ParseFile(pre).ok

(* C8: `new` without a manifest writes one that holds exactly the default
   name, version and entrypoint and an empty dependencies table, exits 0,
   and creates main.bolt with the placeholder text only when it was
   missing. *)
C8_NewCreatesDefaults ==
    \A p \in Procs :
        (Ran(p, <<"new">>) /\ ~pre.exists)
            => LET r == ParseFile(manifest)
               IN  /\ manifest.exists /\ r.ok
                   /\ DOMAIN r.doc = {"package", "dependencies"}
                   /\ Entries(r.doc) = { <<"package", "name", "str", "new-bolt-project">>,
                                         <<"package", "version", "str", "0.1.0">>,
                                         <<"package", "entrypoint", "str", "main.bolt">> }
                   /\ r.doc["dependencies"].kind = "tbl"
                   /\ exit[p] = {0}
                   /\ entryfile = IF preEntry.exists THEN preEntry ELSE File(StubText)

C8_Witness ==
    \E p \in Procs :
        Ran(p, <<"new">>) /\ ~pre.exists /\ preEntry.exists /\ manifest.exists

(* C9: two installs of different packages that both load the manifest
   before either writes it leave only the last writer's package: the
   other's update is lost.  An install that runs with no other invocation
   beside it keeps the dependencies it found and adds its own, so two
   installs one after the other leave both packages. *)
C9_LostUpdate ==
    \A q \in Procs : \A b \in Pkgs :
        (pc[q] = "done" /\ argv[q] = <<"install", b>> /\ lastWriter = q /\ Quiet)
            => LET final == DepNames(ParseFile(manifest).doc)
               IN  /\ \A a \in stale[q] :
                          (a # b /\ a \notin DepNames(tbl[q]))
                              => (a \notin final /\ b \in final)
                   /\ (latest = q /\ ~overlap[q] /\ ParseFile(pre).ok)
                          => (DepNames(ParseFile(pre).doc) \cup {b}) \subseteq final

(* C9, where the loaded dependencies are a table (or missing): the lost
   update and the sequential result as stated. *)
C9_OnTables ==
    \A q \in Procs : \A b \in Pkgs :
        (pc[q] = "done" /\ argv[q] = <<"install", b>> /\ lastWriter = q /\ Quiet)
            => LET final == DepNames(ParseFile(manifest).doc)
                   found == ParseFile(pre).doc
               IN  /\ \A a \in stale[q] :
                          (a # b /\ a \notin DepNames(tbl[q]) /\ b \in DepNames(tbl[q]))
                              => (a \notin final /\ b \in final)
                   /\ (latest = q /\ ~overlap[q] /\ ParseFile(pre).ok
                       /\ ("dependencies" \in DOMAIN found => IsTable(found, "dependencies")))
                          => final = DepNames(found) \cup {b}

(* C9: the state after the race: both installs ended with status 0 and the
   manifest holds only the second writer's package. *)
C9_RaceReached ==
    \E p, q \in Procs :
        /\ p # q /\ Quiet /\ lastWriter = q
        /\ argv[p] = <<"install", "fmt">> /\ exit[p] = {0}
        /\ argv[q] = <<"install", "zlib">> /\ exit[q] = {0}
        /\ stale[q] = {"fmt"}
        /\ DepNames(ParseFile(manifest).doc) = {"zlib"}

(* C10: an install that writes the manifest back changes nothing but
   dependencies[pkg]; build leaves the manifest alone; so once `new` has
   written the manifest, its package fields stay what `new` wrote and every
   dependency has version "1.0.0". *)
C10_InstallFrame ==
    /\ \A p \in Procs : \A k \in Pkgs :
          (Ran(p, <<"install", k>>) /\ exit[p] = {0} /\ ParseFile(pre).ok)
              => /\ ParseFile(manifest).ok
                 /\ { e \in Entries(ParseFile(manifest).doc) : <<e[1], e[2]>> # <<"dependencies", k>> }
                    = { e \in Entries(ParseFile(pre).doc) : <<e[1], e[2]>> # <<"dependencies", k>> }
    /\ \A p \in Procs :
          (latest = p /\ argv[p] = <<"build">>) => manifest = pre
    /\ (fresh /\ \A p \in Procs : pc[p] # "install_write")
          => /\ ParseFile(manifest).ok
             /\ \A e \in Entries(ParseFile(manifest).doc) :
                   \/ e \in { <<"package", "name", "str", "new-bolt-project">>,
                              <<"package", "version", "str", "0.1.0">>,
                              <<"package", "entrypoint", "str", "main.bolt">> }
                   \/ (e[1] = "dependencies" /\ e[3] = "str" /\ e[4] = "1.0.0")
             /\ Cardinality(Entries(ParseFile(manifest).doc))
                   = 3 + Cardinality(DepNames(ParseFile(manifest).doc))

C10_Witness ==
    \E p \in Procs :
        /\ fresh
        /\ Ran(p, <<"build">>) /\ ret[p] = {0}
        /\ DepNames(ParseFile(manifest).doc) = {"fmt", "zlib"}

====
